---- MODULE Spec2Model ----
(***************************************************************************)
(* A model of the Airtable client of airtable-deno (src/airtable.ts).      *)
(*                                                                         *)
(* Text.  A JavaScript string is a sequence of symbols.  A symbol is       *)
(* either one character that encodeURIComponent escapes or that the code   *)
(* inserts as punctuation ("/", "?", "&", "=", "[", "]", " ", ...), or a   *)
(* word: an indivisible, non-empty run of characters that                  *)
(* encodeURIComponent leaves alone (letters, digits, "-", "_", ".", ...).  *)
(* Concatenation of strings is \o, the empty string is << >>.              *)
(*                                                                         *)
(* Values.  A JavaScript value held in an options object is a record       *)
(* [t, s]: t is what typeof answers, s is the text of the value.           *)
(***************************************************************************)
EXTENDS Integers, Sequences, FiniteSets, TLC

VARIABLES clients, ret, inflight

vars == <<clients, ret, inflight>>

----------------------------------------------------------------------------
(* Bounds of the model *)

\* longest sort list of a select query
MaxSort == 2
\* most scalar parameters of a select query
MaxScalars == 2
\* longest list handed to create, update, replace or delete
MaxRecords == 2

----------------------------------------------------------------------------
(* JavaScript values and strings *)

Digits == <<"0", "1", "2", "3", "4", "5", "6", "7", "8", "9">>

RECURSIVE NumberToString(_)
\* String(n) of a natural number, one symbol per digit
NumberToString(n) ==
    IF n < 10 THEN <<Digits[n + 1]>>
    ELSE NumberToString(n \div 10) \o <<Digits[(n % 10) + 1]>>

undefined == [t |-> "undefined", s |-> << >>]

Str(s) == [t |-> "string", s |-> s]

true == [t |-> "boolean", s |-> <<"true">>]

Num(n) == [t |-> "number", s |-> NumberToString(n)]

\* ToBoolean: what `!v` and `v ? a : b` test
Truthy(v) == \/ v.t = "string" /\ v.s # << >>
             \/ v.t = "boolean" /\ v.s = <<"true">>

\* `${v}` in a template literal
Template(v) == IF v.t = "undefined" THEN <<"undefined">> ELSE v.s

\* { ...a, ...b } on objects held as functions from their own keys
Spread(a, b) == [k \in (DOMAIN a) \cup (DOMAIN b) |->
                    IF k \in DOMAIN b THEN b[k] ELSE a[k]]

\* o.k, undefined when o has no own key k
Get(o, k) == IF k \in DOMAIN o THEN o[k] ELSE undefined

EmptyObject == [k \in {} |-> undefined]

\* o.k where an object is expected: spreading undefined adds nothing
GetObject(o, k) == IF k \in DOMAIN o THEN o[k] ELSE EmptyObject

\* const { k1, k2, ...rest } = o
Rest(o, keys) == [k \in (DOMAIN o) \ keys |-> o[k]]

RECURSIVE Join(_, _)
\* Array.prototype.join
Join(segs, sep) ==
    IF segs = << >> THEN << >>
    ELSE IF Len(segs) = 1 THEN segs[1]
    ELSE segs[1] \o sep \o Join(Tail(segs), sep)

\* the characters of the model's alphabet that encodeURIComponent escapes,
\* with the two hex digits of their UTF-8 byte
Escaped == [c \in {" ", "/", "?", "&", "=", "{", "}", "[", "]", ":", "%"} |->
    CASE c = " " -> <<"%", "2", "0">>
      [] c = "/" -> <<"%", "2", "F">>
      [] c = "?" -> <<"%", "3", "F">>
      [] c = "&" -> <<"%", "2", "6">>
      [] c = "=" -> <<"%", "3", "D">>
      [] c = "{" -> <<"%", "7", "B">>
      [] c = "}" -> <<"%", "7", "D">>
      [] c = "[" -> <<"%", "5", "B">>
      [] c = "]" -> <<"%", "5", "D">>
      [] c = ":" -> <<"%", "3", "A">>
      [] c = "%" -> <<"%", "2", "5">>]

RECURSIVE encodeURIComponent(_)
encodeURIComponent(s) ==
    IF s = << >> THEN << >>
    ELSE (IF Head(s) \in DOMAIN Escaped THEN Escaped[Head(s)] ELSE <<Head(s)>>)
         \o encodeURIComponent(Tail(s))

----------------------------------------------------------------------------
(* AirtableError *)

\* new AirtableError({ message, stackObject, status }); a property the caller
\* leaves out is undefined
AirtableError(message, stackObject, status) ==
    [message |-> message, stackObject |-> stackObject, status |-> status]

----------------------------------------------------------------------------
(* Query Serializer *)

sortKey == <<"sort">>

\* one entry of a query object: a scalar parameter, or the sort list
Scalar(key, value) == [key |-> key, kind |-> "scalar", value |-> value, sort |-> << >>]

SortParam(list) == [key |-> sortKey, kind |-> "sort", value |-> undefined, sort |-> list]

\* the entries sort[i][field]=<field> and sort[i][direction]=<direction> of
\* the i-th sort object (i counts from 1 here, from 0 in the text)
SortEntries(spec, i) ==
    LET idx == <<"sort", "[">> \o NumberToString(i - 1) \o <<"]">>
    IN  <<idx \o <<"[", "field", "]", "=">> \o spec.field>>
        \o (IF spec.direction.t = "undefined" THEN << >>
            ELSE <<idx \o <<"[", "direction", "]", "=">> \o spec.direction.s>>)

RECURSIVE SortPieces(_, _)
SortPieces(list, i) ==
    IF i > Len(list) THEN << >>
    ELSE SortEntries(list[i], i) \o SortPieces(list, i + 1)

RECURSIVE AllSortPieces(_)
\* the flattened sort entries of a query, << >> when sort is absent or empty
AllSortPieces(query) ==
    IF query = << >> THEN << >>
    ELSE (IF Head(query).kind = "sort" THEN SortPieces(Head(query).sort, 1) ELSE << >>)
         \o AllSortPieces(Tail(query))

RECURSIVE ScalarPieces(_)
\* the percent-encoded key=value pairs of the scalar parameters, in the
\* order supplied
ScalarPieces(query) ==
    IF query = << >> THEN << >>
    ELSE (IF Head(query).kind = "scalar"
          THEN <<encodeURIComponent(Head(query).key) \o <<"=">>
                 \o encodeURIComponent(Head(query).value.s)>>
          ELSE << >>)
         \o ScalarPieces(Tail(query))

\* stringify of deps.ts: sort entries first, then the scalars, joined by &
stringify(query) == Join(AllSortPieces(query) \o ScalarPieces(query), <<"&">>)

\* hasAnyKey of utils.ts: whether the query, an absent or empty sort list
\* put aside, has a key at all
hasAnyKey(query) ==
    \E i \in 1..Len(query) : query[i].kind = "sort" => query[i].sort # << >>

----------------------------------------------------------------------------
(* URL Builder *)

Threw(error) == [threw |-> TRUE, value |-> << >>, error |-> error]

Returned(value) ==
    [threw |-> FALSE, value |-> value, error |-> AirtableError(<< >>, undefined, undefined)]

\* QuerySegments without the hasAnyKey test
QuerySegmentsAlways(query) == << <<"?">>, stringify(query) >>

\* QuerySegments that leaves the query string out
QuerySegmentsMarkerOnly(query) == IF hasAnyKey(query) THEN << <<"?">> >> ELSE << >>

\* the segments that carry the query: [] or ["?", stringify(query)]
QuerySegments(query) ==
    IF hasAnyKey(query) THEN << <<"?">>, stringify(query) >> ELSE << >>

\* getRequestUrl without the test of tableName
getRequestUrlNoTableTest(options, query, segments) ==
    LET apiKey == Get(options, "apiKey")
        endpointUrl == Get(options, "endpointUrl")
        baseId == Get(options, "baseId")
        tableName == Get(options, "tableName")
    IN  IF ~Truthy(apiKey) \/ ~Truthy(endpointUrl) \/ ~Truthy(baseId)
          THEN Threw(AirtableError(<<"Base ID is not defined">>, undefined, undefined))
        ELSE Returned(Join(<<endpointUrl.s, baseId.s,
                             encodeURIComponent(Template(tableName))>>
                           \o segments \o QuerySegments(query),
                           <<"/">>))

\* getRequestUrl that tests baseId before endpointUrl
getRequestUrlBaseFirst(options, query, segments) ==
    LET apiKey == Get(options, "apiKey")
        endpointUrl == Get(options, "endpointUrl")
        baseId == Get(options, "baseId")
        tableName == Get(options, "tableName")
    IN  IF ~Truthy(apiKey)
          THEN Threw(AirtableError(
                 <<"An API key is required to connect to Airtable">>,
                 undefined, undefined))
        ELSE IF ~Truthy(baseId)
          THEN Threw(AirtableError(<<"Base ID is not defined">>,
                                   undefined, undefined))
        ELSE IF ~Truthy(endpointUrl)
          THEN Threw(AirtableError(<<"Endpoint URL is not defined">>,
                                   undefined, undefined))
        ELSE IF ~Truthy(tableName)
          THEN Threw(AirtableError(<<"Table Name is not defined">>,
                                   undefined, undefined))
        ELSE Returned(Join(<<endpointUrl.s, baseId.s,
                             encodeURIComponent(tableName.s)>>
                           \o segments \o QuerySegments(query),
                           <<"/">>))

\* getRequestUrl that leaves the table name as it is
getRequestUrlRawTable(options, query, segments) ==
    LET apiKey == Get(options, "apiKey")
        endpointUrl == Get(options, "endpointUrl")
        baseId == Get(options, "baseId")
        tableName == Get(options, "tableName")
    IN  IF ~Truthy(apiKey) \/ ~Truthy(endpointUrl) \/ ~Truthy(baseId)
           \/ ~Truthy(tableName)
          THEN Threw(AirtableError(<<"Table Name is not defined">>, undefined, undefined))
        ELSE Returned(Join(<<endpointUrl.s, baseId.s, tableName.s>>
                           \o segments \o QuerySegments(query),
                           <<"/">>))

getRequestUrl(options, query, segments) ==
    LET apiKey == Get(options, "apiKey")
        endpointUrl == Get(options, "endpointUrl")
        baseId == Get(options, "baseId")
        tableName == Get(options, "tableName")
    IN  IF ~Truthy(apiKey)
          THEN Threw(AirtableError(
                 <<"An API key is required to connect to Airtable">>,
                 undefined, undefined))
        ELSE IF ~Truthy(endpointUrl)
          THEN Threw(AirtableError(<<"Endpoint URL is not defined">>,
                                   undefined, undefined))
        ELSE IF ~Truthy(baseId)
          THEN Threw(AirtableError(<<"Base ID is not defined">>,
                                   undefined, undefined))
        ELSE IF ~Truthy(tableName)
          THEN Threw(AirtableError(<<"Table Name is not defined">>,
                                   undefined, undefined))
        ELSE Returned(Join(<<endpointUrl.s, baseId.s,
                             encodeURIComponent(tableName.s)>>
                           \o segments \o QuerySegments(query),
                           <<"/">>))

----------------------------------------------------------------------------
(* JSON bodies.  An object that is serialised is a sequence of properties   *)
(* [k, v] in insertion order, v a value whose s is its JSON text.           *)

Prop(k, v) == [k |-> k, v |-> v]

Json(text) == [t |-> "object", s |-> text]

Keys(obj) == {obj[i].k : i \in 1..Len(obj)}

RECURSIVE Without(_, _)
Without(obj, keys) ==
    IF obj = << >> THEN << >>
    ELSE (IF Head(obj).k \in keys THEN << >> ELSE <<Head(obj)>>)
         \o Without(Tail(obj), keys)

Lookup(obj, k) == obj[CHOOSE i \in 1..Len(obj) : obj[i].k = k].v

\* { ...a, ...b }: a's keys keep their place and take b's value, b's other
\* keys follow
ObjectSpread(a, b) ==
    [i \in 1..Len(a) |-> IF a[i].k \in Keys(b) THEN Prop(a[i].k, Lookup(b, a[i].k))
                         ELSE a[i]]
    \o Without(b, Keys(a))

Quoted(s) == <<"\"">> \o s \o <<"\"">>

RECURSIVE JsonProps(_)
\* the "key":value texts of the properties JSON.stringify keeps
JsonProps(obj) ==
    IF obj = << >> THEN << >>
    ELSE (IF Head(obj).v.t = "undefined" THEN << >>
          ELSE <<Quoted(<<Head(obj).k>>) \o <<":">> \o Head(obj).v.s>>)
         \o JsonProps(Tail(obj))

\* JSON.stringify of an object
JSONstringify(obj) == <<"{">> \o Join(JsonProps(obj), <<",">>) \o <<"}">>

\* JSON.stringify of an array whose items are given by their JSON texts
JsonArray(texts) == <<"[">> \o Join(texts, <<",">>) \o <<"]">>

\* a TableRecord { id, fields } as a serialisable object
TableRecord(id, fields) == <<Prop("id", Json(Quoted(id))), Prop("fields", fields)>>

\* an options argument: undefined spreads as nothing
OptionProps(options) == IF options.t = "undefined" THEN << >> ELSE options.props

RecordOptions(props) == [t |-> "object", s |-> JSONstringify(props), props |-> props]

----------------------------------------------------------------------------
(* Request Dispatcher *)

\* what an operation does before it first suspends: it throws, or it calls
\* fetch(url, init)
Throws(error) ==
    [threw |-> TRUE, error |-> error, fetched |-> FALSE, url |-> << >>,
     init |-> EmptyObject]

Fetches(url, init) ==
    [threw |-> FALSE, error |-> AirtableError(<< >>, undefined, undefined),
     fetched |-> TRUE, url |-> url, init |-> init]

getAuthHeader(options) ==
    "Authorization" :> (<<"Bearer", " ">> \o Template(Get(options, "apiKey")))

\* request whose caller's headers, when given, stand in for the
\* Authorization header
requestHeadersReplace(options, req) ==
    Fetches(req["url"],
            Spread([headers |-> IF "headers" \in DOMAIN req THEN req["headers"]
                                ELSE getAuthHeader(options)],
                   Rest(req, {"url", "headers"})))

\* request({ url, headers, ...options }) up to the call of fetch
request(options, req) ==
    Fetches(req["url"],
            Spread([headers |-> Spread(getAuthHeader(options), GetObject(req, "headers"))],
                   Rest(req, {"url", "headers"})))

\* jsonRequest({ headers, jsonBody, ...options })
jsonRequest(options, req) ==
    request(options,
            Spread([headers |-> Spread(GetObject(req, "headers"),
                                       "Content-Type" :> <<"application/json">>),
                    body |-> Str(JSONstringify(req["jsonBody"]))],
                   Rest(req, {"headers", "jsonBody"})))

----------------------------------------------------------------------------
(* Client Facade: configuration *)

defaultOptions == [endpointUrl |-> Str(<<"https", ":", "/", "/", "api.airtable.com", "/", "v0">>)]

\* the object read from the environment when options.useEnv is set
EnvOptions(env) ==
    [apiKey |-> env["AIRTABLE_API_KEY"],
     endpointUrl |-> env["AIRTABLE_ENDPOINT_URL"],
     baseId |-> env["AIRTABLE_BASE_ID"],
     tableName |-> env["AIRTABLE_TABLE_NAME"]]

\* the constructor with the environment spread after the defaults
AirtableEnvOverDefault(env, options) ==
    Spread(Spread(defaultOptions,
                  IF Truthy(Get(options, "useEnv")) THEN EnvOptions(env) ELSE EmptyObject),
           options)

\* new Airtable(options): the value of #options
Airtable(env, options) ==
    Spread(Spread(IF Truthy(Get(options, "useEnv")) THEN EnvOptions(env) ELSE EmptyObject,
                  defaultOptions),
           options)

\* configure(options): the new value of #options
configure(this, options) == Spread(this, options)

\* base that constructs the new client from the base id alone
baseIdOnly(this, baseId) == [baseId |-> baseId]

\* base(baseId): the options the new client is constructed from
base(this, baseId) == Spread(this, [baseId |-> baseId])

\* table(tableName): the options the new client is constructed from
table(this, tableName) == Spread(this, [tableName |-> tableName])

----------------------------------------------------------------------------
(* Client Facade: operations.  `this` is the value of #options; an array is *)
(* a value [t |-> "array", s |-> its items].                                *)

Array(items) == [t |-> "array", s |-> items]

select(this, options) ==
    LET url == getRequestUrl(this, options, << >>)
    IN  IF url.threw THEN Throws(url.error)
        ELSE request(this, [url |-> url.value])

find(this, id) ==
    LET url == getRequestUrl(this, << >>, <<id.s>>)
    IN  IF url.threw THEN Throws(url.error)
        ELSE request(this, [url |-> url.value])

\* create without the test for an array: the list is sent as one field map
createNoArrayTest(this, data, options) ==
    LET opts == IF options.t = "undefined" THEN << >> ELSE options.props
        url == getRequestUrl(this, << >>, << >>)
        fields == IF data.t = "array"
                  THEN Json(JsonArray([i \in 1..Len(data.s) |-> data.s[i].s]))
                  ELSE data
    IN  IF url.threw THEN Throws(url.error)
        ELSE jsonRequest(this,
                 [url |-> url.value, method |-> "POST",
                  jsonBody |-> ObjectSpread(<<Prop("fields", fields)>>, opts)])

create(this, data, options) ==
    LET opts == IF options.t = "undefined" THEN << >> ELSE options.props
        url == getRequestUrl(this, << >>, << >>)
    IN  IF url.threw THEN Throws(url.error)
        ELSE IF data.t = "array"
          THEN jsonRequest(this,
                 [url |-> url.value, method |-> "POST",
                  jsonBody |-> ObjectSpread(
                     <<Prop("records", Json(JsonArray(
                         [i \in 1..Len(data.s) |->
                             JSONstringify(<<Prop("fields", data.s[i])>>)])))>>,
                     opts)])
        ELSE jsonRequest(this,
                 [url |-> url.value, method |-> "POST",
                  jsonBody |-> ObjectSpread(<<Prop("fields", data)>>, opts)])

\* updateOrReplace that always patches
updateOrReplaceAlwaysPatch(this, id, data, replace, options) ==
    LET url == IF id.t = "string" THEN getRequestUrl(this, << >>, <<id.s>>)
               ELSE getRequestUrl(this, << >>, << >>)
    IN  IF url.threw THEN Throws(url.error)
        ELSE jsonRequest(this,
               [url |-> url.value, method |-> "PATCH",
                jsonBody |-> ObjectSpread(data, OptionProps(options))])

\* updateOrReplace({ id, data, replace, options })
updateOrReplace(this, id, data, replace, options) ==
    LET method == IF replace THEN "PUT" ELSE "PATCH"
        url == IF id.t = "string" THEN getRequestUrl(this, << >>, <<id.s>>)
               ELSE getRequestUrl(this, << >>, << >>)
    IN  IF url.threw THEN Throws(url.error)
        ELSE jsonRequest(this,
               [url |-> url.value, method |-> method,
                jsonBody |-> ObjectSpread(data, OptionProps(options))])

\* the body shared by update and replace
updateOrReplaceCall(this, idOrRecords, record, options, replace) ==
    IF idOrRecords.t = "string"
    THEN updateOrReplace(this, idOrRecords, <<Prop("fields", record)>>, replace, options)
    ELSE updateOrReplace(this, undefined,
           <<Prop("records", Json(JsonArray(
               [i \in 1..Len(idOrRecords.s) |-> JSONstringify(idOrRecords.s[i])])))>>,
           replace, options)

update(this, idOrRecords, record, options) ==
    updateOrReplaceCall(this, idOrRecords, record, options, FALSE)

replace(this, idOrRecords, record, options) ==
    updateOrReplaceCall(this, idOrRecords, record, options, TRUE)

\* DeleteBody that joins the entries with the default separator of join
DeleteBodyCommas(ids) ==
    Join([i \in 1..Len(ids) |-> <<"records", "[", "]", "=">> \o ids[i]], <<",">>)

\* the body of a bulk delete: records[]=<id> for each id, joined by &
DeleteBody(ids) ==
    Join([i \in 1..Len(ids) |-> <<"records", "[", "]", "=">> \o ids[i]], <<"&">>)

delete(this, ids) ==
    LET url == getRequestUrl(this, << >>,
                             IF ids.t = "array" THEN << << >> >> ELSE <<ids.s>>)
    IN  IF url.threw THEN Throws(url.error)
        ELSE request(this,
               Spread([url |-> url.value, method |-> "DELETE",
                       headers |-> ("Content-Type" :> <<"application/x-www-form-urlencoded">>)],
                      IF ids.t = "array" THEN [body |-> Str(DeleteBody(ids.s))]
                      ELSE EmptyObject))

----------------------------------------------------------------------------
(* Inputs *)

OptionKeys == {"apiKey", "endpointUrl", "baseId", "tableName"}

Falsy == {undefined, Str(<< >>)}

ApiKeys == {Str(<<"keyXXXXXXXXXXXXXX">>), Str(<<"keyYYYYYYYYYYYYYY">>)}

Endpoints == {defaultOptions.endpointUrl}

BaseIds == {Str(<<"appXXXXXXXXXXXXXX">>), Str(<<"appYYYYYYYYYYYYYY">>)}

TableNames == {Str(<<"Humans">>), Str(<<"Some", " ", "table", " ", "name">>)}

\* table names whose characters all need escaping, for the URL builder alone
OddTableNames == {Str(<<"a", "/", "b", "?", "c", "=", "d">>)}

OptionValues(k) ==
    CASE k = "apiKey" -> ApiKeys
      [] k = "endpointUrl" -> Endpoints
      [] k = "baseId" -> BaseIds
      [] k = "tableName" -> TableNames

RecordIds == {<<"recXXXXXXXXXXXXXX">>, <<"recYYYYYYYYYYYYYY">>}

\* field maps, each named by its JSON text
FieldSets == {Json(<<"{\"Name\":\"Foo\",\"Age\":20}">>),
              Json(<<"{\"Name\":\"Bar\",\"Age\":15}">>)}

RecordOptionsArgs == {undefined, RecordOptions(<<Prop("typecast", Json(<<"true">>))>>)}

\* sequences over S of length at most n
SeqUpTo(S, n) == UNION {[1..k -> S] : k \in 0..n}

Injective(f) == \A i, j \in DOMAIN f : f[i] = f[j] => i = j

SortSpecs ==
    {[field |-> <<"Name">>, direction |-> Str(<<"asc">>)],
     [field |-> <<"Age">>, direction |-> undefined]}

ScalarParams ==
    {Scalar(<<"filterByFormula">>, Str(<<"{", "Age", "}", "=", "'27'">>)),
     Scalar(<<"maxRecords">>, Str(<<"5", "0">>)),
     Scalar(<<"pageSize">>, Num(30))}

\* a query object: its keys are distinct, in the order the caller wrote them
InsertAt(q, i, e) == SubSeq(q, 1, i) \o <<e>> \o SubSeq(q, i + 1, Len(q))

ScalarQueries == {q \in SeqUpTo(ScalarParams, MaxScalars) : Injective(q)}

Queries ==
    ScalarQueries \cup
    UNION {{InsertAt(q, i, SortParam(l)) :
               i \in 0..Len(q), l \in SeqUpTo(SortSpecs, MaxSort)} :
           q \in ScalarQueries}

\* the configurations the URL builder is applied to: every required field
\* is missing, empty or set
UrlConfigs ==
    {o \in [OptionKeys -> Falsy \cup ApiKeys \cup Endpoints \cup BaseIds
                              \cup TableNames \cup OddTableNames] :
        \A k \in OptionKeys :
            o[k] \in Falsy \cup OptionValues(k)
                          \cup (IF k = "tableName" THEN OddTableNames ELSE {})}

\* the extra path segments the operations pass: none, a record id, ""
SegmentArgs == {<< >>, << << >> >>, <<<<"recXXXXXXXXXXXXXX">>>>}

\* the environment: no variable set, or all four set
Envs ==
    {[v \in {"AIRTABLE_API_KEY", "AIRTABLE_ENDPOINT_URL", "AIRTABLE_BASE_ID",
             "AIRTABLE_TABLE_NAME"} |-> undefined],
     [AIRTABLE_API_KEY |-> Str(<<"keyYYYYYYYYYYYYYY">>),
      AIRTABLE_ENDPOINT_URL |-> Str(<<"https", ":", "/", "/", "proxy.example", "/", "v0">>),
      AIRTABLE_BASE_ID |-> Str(<<"appYYYYYYYYYYYYYY">>),
      AIRTABLE_TABLE_NAME |-> Str(<<"Humans">>)]}

\* options handed to the constructor
CtorOptions ==
    {EmptyObject,
     [useEnv |-> true],
     [apiKey |-> Str(<<"keyXXXXXXXXXXXXXX">>), baseId |-> Str(<<"appXXXXXXXXXXXXXX">>),
      tableName |-> Str(<<"Humans">>)],
     [useEnv |-> true, tableName |-> Str(<<"Some", " ", "table", " ", "name">>)]}

\* how configure unsets a field in the client specification: apiKey and
\* tableName are emptied, endpointUrl and baseId are removed
Unset(k) == IF k \in {"apiKey", "tableName"} THEN Str(<< >>) ELSE undefined

\* options handed to configure: nothing, or one field set or unset
ConfigureOptions ==
    {EmptyObject} \cup
    UNION {{k :> v : v \in {Unset(k)} \cup OptionValues(k)} : k \in OptionKeys}

\* select options of the client specification
SelectOptions ==
    {<< >>,
     <<SortParam(<< >>)>>,
     <<Scalar(<<"filterByFormula">>, Str(<<"{", "Age", "}", "=", "'27'">>))>>,
     <<Scalar(<<"maxRecords">>, Str(<<"5", "0">>)),
       SortParam(<<[field |-> <<"Name">>, direction |-> Str(<<"asc">>)]>>),
       Scalar(<<"pageSize">>, Num(30))>>}

\* the records of a batch update or replace
TableRecords ==
    {TableRecord(<<"recXXXXXXXXXXXXXX">>, Json(<<"{\"Name\":\"Foo\",\"Age\":20}">>)),
     TableRecord(<<"recYYYYYYYYYYYYYY">>, Json(<<"{\"Name\":\"Bar\",\"Age\":15}">>))}

----------------------------------------------------------------------------
(* State.  clients maps each client the caller holds to its #options; ret  *)
(* is the latest call: the operation, its receiver, its arguments and what  *)
(* it did (threw, or called fetch) or which client it returned.  inflight   *)
(* holds the calls of fetch whose response has not arrived; only the        *)
(* specification of the responses follows a call past its fetch.            *)

NoOutcome ==
    [threw |-> FALSE, error |-> AirtableError(<< >>, undefined, undefined),
     fetched |-> FALSE, url |-> << >>, init |-> EmptyObject]

Call(op, c, args, out, returned) ==
    [op |-> op, client |-> c, args |-> args, out |-> out, returned |-> returned]

\* this.#options = options as if #options were one field shared by all
\* clients
AssignShared(cs, c, options) == [x \in DOMAIN cs |-> options]

\* this.#options = options: the field of the one client c
Assign(cs, c, options) == [cs EXCEPT ![c] = options]

\* the clients of the client specification: the caller keeps one reference
\* and rebinds it to what base and table return
Held == {"c"}

Init ==
    \E env \in Envs, options \in CtorOptions :
        /\ clients = ("c" :> Airtable(env, options))
        /\ ret = Call("new", "c", [options |-> options], NoOutcome, "c")
        /\ inflight = << >>

New(d, env, options) ==
    /\ clients' = (d :> Airtable(env, options)) @@ clients
    /\ ret' = Call("new", d, [options |-> options], NoOutcome, d)
    /\ UNCHANGED inflight

Configure(c, options) ==
    /\ c \in DOMAIN clients
    /\ clients' = Assign(clients, c, configure(clients[c], options))
    /\ ret' = Call("configure", c, [options |-> options], NoOutcome, c)
    /\ UNCHANGED inflight

Base(c, d, env, baseId) ==
    /\ c \in DOMAIN clients
    /\ clients' = (d :> Airtable(env, base(clients[c], baseId))) @@ clients
    /\ ret' = Call("base", c, [baseId |-> baseId], NoOutcome, d)
    /\ UNCHANGED inflight

Table(c, d, env, tableName) ==
    /\ c \in DOMAIN clients
    /\ clients' = (d :> Airtable(env, table(clients[c], tableName))) @@ clients
    /\ ret' = Call("table", c, [tableName |-> tableName], NoOutcome, d)
    /\ UNCHANGED inflight

\* an operation called on client c: the configuration is left alone
Operation(op, c, args, out) ==
    /\ c \in DOMAIN clients
    /\ ret' = Call(op, c, args, out, "")
    /\ UNCHANGED <<clients, inflight>>

Select(c, options) ==
    Operation("select", c, [options |-> options], select(clients[c], options))

Find(c, id) == Operation("find", c, [id |-> id], find(clients[c], id))

Create(c, data, options) ==
    Operation("create", c, [data |-> data, options |-> options],
              create(clients[c], data, options))

\* update(id, record, options?)
UpdateOne(c, id, record, options) ==
    Operation("update", c, [id |-> id, record |-> record, options |-> options],
              update(clients[c], id, record, options))

\* update(records, options?): the options are the second argument
UpdateMany(c, records, options) ==
    Operation("update", c, [records |-> records, options |-> options],
              update(clients[c], records, options, undefined))

\* replace(id, record, options?)
ReplaceOne(c, id, record, options) ==
    Operation("replace", c, [id |-> id, record |-> record, options |-> options],
              replace(clients[c], id, record, options))

\* replace(records, options?): the options are the second argument
ReplaceMany(c, records, options) ==
    Operation("replace", c, [records |-> records, options |-> options],
              replace(clients[c], records, options, undefined))

Delete(c, ids) == Operation("delete", c, [ids |-> ids], delete(clients[c], ids))

Reconfigure ==
    \/ \E d \in Held, env \in Envs, o \in CtorOptions : New(d, env, o)
    \/ \E c \in Held, o \in ConfigureOptions : Configure(c, o)
    \/ \E c, d \in Held, env \in Envs, b \in BaseIds : Base(c, d, env, b)
    \/ \E c, d \in Held, env \in Envs, t \in TableNames : Table(c, d, env, t)

Operate ==
    \/ \E c \in Held, q \in SelectOptions : Select(c, q)
    \/ \E c \in Held, id \in RecordIds : Find(c, Str(id))
    \/ \E c \in Held, data \in FieldSets \cup {Array(l) : l \in SeqUpTo(FieldSets, MaxRecords)},
          o \in RecordOptionsArgs : Create(c, data, o)
    \/ \E c \in Held, id \in RecordIds, f \in FieldSets, o \in RecordOptionsArgs :
          UpdateOne(c, Str(id), f, o)
    \/ \E c \in Held, l \in SeqUpTo(TableRecords, MaxRecords), o \in RecordOptionsArgs :
          UpdateMany(c, Array(l), o)
    \/ \E c \in Held, id \in RecordIds, f \in FieldSets, o \in RecordOptionsArgs :
          ReplaceOne(c, Str(id), f, o)
    \/ \E c \in Held, l \in SeqUpTo(TableRecords, MaxRecords), o \in RecordOptionsArgs :
          ReplaceMany(c, Array(l), o)
    \/ \E c \in Held, id \in RecordIds : Delete(c, Str(id))
    \/ \E c \in Held, l \in SeqUpTo(RecordIds, MaxRecords) : Delete(c, Array(l))

Next == Reconfigure \/ Operate

Spec == Init /\ [][Next]_vars

----------------------------------------------------------------------------
(* The URL builder as a function: a configuration is drawn, and            *)
(* getRequestUrl is applied once to a query and to extra path segments.    *)

InitUrl ==
    /\ clients \in {"c" :> o : o \in UrlConfigs}
    /\ ret = Call("", "c", [query |-> << >>, segments |-> << >>], NoOutcome, "")
    /\ inflight = << >>

GetRequestUrl(c, query, segments) ==
    /\ ret.op = ""
    /\ ret' = Call("getRequestUrl", c, [query |-> query, segments |-> segments],
                   getRequestUrl(clients[c], query, segments), "")
    /\ UNCHANGED <<clients, inflight>>

NextUrl == \E query \in Queries, segments \in SegmentArgs : GetRequestUrl("c", query, segments)

SpecUrl == InitUrl /\ [][NextUrl]_vars

----------------------------------------------------------------------------
(* Vocabulary of the properties *)

OperationNames == {"select", "find", "create", "update", "replace", "delete"}

FieldOrder == <<"apiKey", "endpointUrl", "baseId", "tableName">>

\* a required field is non-empty when it is a string of at least one symbol
NonEmpty(o, k) == k \in DOMAIN o /\ o[k].t = "string" /\ Len(o[k].s) > 0

Complete(o) == \A k \in OptionKeys : NonEmpty(o, k)

FirstMissing(o) ==
    FieldOrder[CHOOSE i \in 1..4 :
                  /\ ~NonEmpty(o, FieldOrder[i])
                  /\ \A j \in 1..(i - 1) : NonEmpty(o, FieldOrder[j])]

MissingMessage(k) ==
    CASE k = "apiKey" -> <<"An API key is required to connect to Airtable">>
      [] k = "endpointUrl" -> <<"Endpoint URL is not defined">>
      [] k = "baseId" -> <<"Base ID is not defined">>
      [] k = "tableName" -> <<"Table Name is not defined">>

\* endpointUrl/baseId/encoded tableName of a complete configuration
TableUrl(o) ==
    o["endpointUrl"].s \o <<"/">> \o o["baseId"].s \o <<"/">>
    \o encodeURIComponent(o["tableName"].s)

IsSuffix(t, u) == Len(t) <= Len(u) /\ SubSeq(u, Len(u) - Len(t) + 1, Len(u)) = t

Occurs(ch, u) == \E i \in 1..Len(u) : u[i] = ch

\* the configuration the latest call was made on
This == clients[ret.client]

UrlCall == ret.op = "getRequestUrl"

ScalarsOf(query) == SelectSeq(query, LAMBDA e : e.kind = "scalar")

SortOf(query) ==
    IF \E i \in 1..Len(query) : query[i].kind = "sort"
    THEN query[CHOOSE i \in 1..Len(query) : query[i].kind = "sort"].sort
    ELSE << >>

\* key=value of a scalar parameter, percent-encoded
Pair(e) == encodeURIComponent(e.key) \o <<"=">> \o encodeURIComponent(e.value.s)

\* the sort entries of index i (from 0): field, then direction when given
SortText(spec, i) ==
    <<"sort", "[">> \o NumberToString(i) \o <<"]", "[", "field", "]", "=">> \o spec.field
    \o (IF spec.direction = undefined THEN << >>
        ELSE <<"&", "sort", "[">> \o NumberToString(i)
             \o <<"]", "[", "direction", "]", "=">> \o spec.direction.s)

\* the query string the properties describe: the sort entries by index,
\* then the scalar parameters in the order supplied, joined by &
ExpectedQuery(query) ==
    Join([i \in 1..Len(SortOf(query)) |-> SortText(SortOf(query)[i], i - 1)]
         \o [i \in 1..Len(ScalarsOf(query)) |-> Pair(ScalarsOf(query)[i])],
         <<"&">>)

----------------------------------------------------------------------------
(* C1..C6 *)

\* C1: select, find, create, update, replace and delete call fetch only if
\* apiKey, endpointUrl, baseId and tableName of the client's configuration
\* are all non-empty when the call is made; with any of them missing or
\* empty the call throws a configuration error (no status) and calls no
\* fetch, whatever happened on the client before.
C1_DispatchOnlyWhenComplete ==
    ret.op \in OperationNames =>
        /\ ret.out.fetched <=> Complete(This)
        /\ ret.out.threw <=> ~Complete(This)
        /\ ret.out.threw => ret.out.error.status = undefined

\* an operation fails on a client whose apiKey a configure emptied while
\* the other three fields are set
C1_Witness ==
    /\ ret.op \in OperationNames
    /\ ret.out.threw /\ ~ret.out.fetched
    /\ Get(This, "apiKey") = Str(<< >>)
    /\ \A k \in OptionKeys \ {"apiKey"} : NonEmpty(This, k)

\* C2: with one or more required fields missing or empty, getRequestUrl
\* throws an AirtableError whose message names the first missing field in
\* the order apiKey, endpointUrl, baseId, tableName, with no status and no
\* diagnostic payload.
C2_FirstMissingFieldReported ==
    (UrlCall /\ ~Complete(This)) =>
        /\ ret.out.threw
        /\ ret.out.error.message = MissingMessage(FirstMissing(This))
        /\ ret.out.error.status = undefined
        /\ ret.out.error.stackObject = undefined

\* endpointUrl and tableName are both missing, apiKey is set: the error
\* names endpointUrl
C2_Witness ==
    /\ UrlCall
    /\ NonEmpty(This, "apiKey")
    /\ ~NonEmpty(This, "endpointUrl") /\ NonEmpty(This, "baseId")
    /\ ~NonEmpty(This, "tableName")
    /\ ret.out.error.message = <<"Endpoint URL is not defined">>

\* C3: for a complete configuration and a record id, getRequestUrl({}, id)
\* is endpointUrl/baseId/encoded tableName/id and holds no "?".
C3_IdIsPathSegment ==
    (UrlCall /\ Complete(This) /\ ret.args.query = << >>
       /\ Len(ret.args.segments) = 1 /\ ret.args.segments[1] # << >>) =>
        /\ ~ret.out.threw
        /\ ret.out.value = TableUrl(This) \o <<"/">> \o ret.args.segments[1]
        /\ ~Occurs("?", ret.out.value)

\* a record id is appended to the URL of a table whose name needs escaping
C3_Witness ==
    /\ UrlCall /\ Complete(This) /\ ret.args.query = << >>
    /\ ret.args.segments = << <<"recXXXXXXXXXXXXXX">> >>
    /\ This["tableName"].s = <<"Some", " ", "table", " ", "name">>
    /\ IsSuffix(<<"Some", "%", "2", "0", "table", "%", "2", "0", "name", "/",
                 "recXXXXXXXXXXXXXX">>, ret.out.value)

\* C4: for a complete configuration and a query with at least one scalar
\* parameter and no extra path segment, the URL is
\* endpointUrl/baseId/encoded tableName, then "?", then the query string,
\* with no "/" on either side of the "?".
C4_QueryFollowsTableName ==
    (UrlCall /\ Complete(This) /\ ret.args.segments = << >>
       /\ ScalarsOf(ret.args.query) # << >>) =>
        ret.out.value = TableUrl(This) \o <<"?">> \o ExpectedQuery(ret.args.query)

\* C5: for a query whose sort list is non-empty, the query string of the
\* URL is, for each index i in increasing order, sort[i][field]=<field>
\* then (when given) sort[i][direction]=<direction>, all of them before
\* every other parameter wherever the sort key stood, followed by the
\* scalar parameters in the order supplied.
C5_SortEntriesFirst ==
    (UrlCall /\ Complete(This) /\ SortOf(ret.args.query) # << >>) =>
        /\ ~ret.out.threw
        /\ IsSuffix(ExpectedQuery(ret.args.query), ret.out.value)

\* sort stands between two scalar parameters in the caller's object and
\* its two entries come first in the query string
C5_Witness ==
    /\ UrlCall /\ Complete(This)
    /\ Len(ret.args.query) = 3 /\ ret.args.query[2].kind = "sort"
    /\ Len(ret.args.query[2].sort) = 2
    /\ ret.args.query[1].key = <<"filterByFormula">>
    /\ ret.args.query[3].key = <<"pageSize">>
    /\ IsSuffix(<<"sort", "[", "0", "]", "[", "field", "]", "=", "Name", "&",
                 "sort", "[", "0", "]", "[", "direction", "]", "=", "asc", "&",
                 "sort", "[", "1", "]", "[", "field", "]", "=", "Age", "&",
                 "filterByFormula", "=", "%", "7", "B", "Age", "%", "7", "D",
                 "%", "3", "D", "'27'", "&", "pageSize", "=", "3", "0">>,
                ret.out.value)

\* C6: for a complete configuration, a query whose only key is an empty
\* sort list, or no key at all, gives exactly
\* endpointUrl/baseId/encoded tableName.
C6_EmptySortAddsNothing ==
    (UrlCall /\ Complete(This) /\ ret.args.segments = << >>
       /\ ret.args.query \in {<< >>, <<SortParam(<< >>)>>}) =>
        /\ ~ret.out.threw
        /\ ret.out.value = TableUrl(This)

\* getRequestUrl({ sort: [] }) was called and returned the table's URL
C6_Witness ==
    /\ UrlCall /\ Complete(This) /\ ret.args.segments = << >>
    /\ ret.args.query = <<SortParam(<< >>)>>
    /\ ret.out.value = TableUrl(This)

----------------------------------------------------------------------------
(* C7..C10 *)

Fetched(op) == ret.op = op /\ ret.out.fetched

Header(name) == ret.out.init["headers"][name]

HasBody == "body" \in DOMAIN ret.out.init

Body == ret.out.init["body"].s

\* ,"typecast":true when the options carry typecast, nothing otherwise
OptionsText(options) ==
    IF options = undefined THEN << >>
    ELSE <<",", "\"", "typecast", "\"", ":", "true">>

\* {"fields":<field map>
FieldsText(fields) == <<"{", "\"", "fields", "\"", ":">> \o fields.s

\* {"records":[<item>,...]
RecordsText(items) ==
    <<"{", "\"", "records", "\"", ":", "[">> \o Join(items, <<",">>) \o <<"]">>

\* C7: create posts to the table URL, with no record id, as
\* application/json; for a list of n field maps the body is
\* {records: [{fields: map 1}, ..., {fields: map n}], ...options} in the
\* caller's order, for one field map it is {fields: data, ...options}.
C7_CreateBody ==
    Fetched("create") =>
        /\ ret.out.init["method"] = "POST"
        /\ ret.out.url = TableUrl(This)
        /\ Header("Content-Type") = <<"application/json">>
        /\ HasBody
        /\ Body = (IF ret.args.data.t = "array"
                   THEN RecordsText([i \in 1..Len(ret.args.data.s) |->
                                        FieldsText(ret.args.data.s[i]) \o <<"}">>])
                   ELSE FieldsText(ret.args.data))
                  \o OptionsText(ret.args.options) \o <<"}">>

\* create was called with a list of two different field maps and typecast
C7_Witness ==
    /\ Fetched("create")
    /\ ret.args.data.t = "array" /\ Len(ret.args.data.s) = 2
    /\ ret.args.data.s[1] # ret.args.data.s[2]
    /\ ret.args.options # undefined
    /\ Body = <<"{", "\"", "records", "\"", ":", "[">>
              \o FieldsText(ret.args.data.s[1]) \o <<"}", ",">>
              \o FieldsText(ret.args.data.s[2]) \o <<"}", "]", ",",
                 "\"", "typecast", "\"", ":", "true", "}">>

BatchForm == "records" \in DOMAIN ret.args

\* C8: the batch forms update(records, options) and replace(records,
\* options) send the body {records: list, ...options}: the options given
\* as second argument are in the body beside the records.
C8_BatchOptionsInBody ==
    ((Fetched("update") \/ Fetched("replace")) /\ BatchForm) =>
        Body = RecordsText([i \in 1..Len(ret.args.records.s) |->
                               JSONstringify(ret.args.records.s[i])])
               \o OptionsText(ret.args.options) \o <<"}">>

\* C9: update and replace choose by the first argument: for a string id
\* the request goes to the table URL followed by the id and the body is
\* {fields, ...options} without the id; for a list it goes to the table URL
\* alone; update is always a PATCH and replace always a PUT, both as
\* application/json.
C9_UpdateReplaceRouting ==
    (Fetched("update") \/ Fetched("replace")) =>
        /\ ret.out.init["method"] = (IF ret.op = "update" THEN "PATCH" ELSE "PUT")
        /\ Header("Content-Type") = <<"application/json">>
        /\ BatchForm => ret.out.url = TableUrl(This)
        /\ ~BatchForm =>
              /\ ret.out.url = TableUrl(This) \o <<"/">> \o ret.args.id.s
              /\ HasBody
              /\ Body = FieldsText(ret.args.record)
                        \o OptionsText(ret.args.options) \o <<"}">>
              /\ ~Occurs("id", Body) /\ ~Occurs(ret.args.id.s[1], Body)

\* replace was called with an id, a field map and typecast
C9_Witness ==
    /\ Fetched("replace") /\ ~BatchForm
    /\ ret.args.options # undefined
    /\ ret.out.init["method"] = "PUT"
    /\ IsSuffix(<<"/">> \o ret.args.id.s, ret.out.url)

\* C10: delete is a DELETE as application/x-www-form-urlencoded; for one
\* id the URL ends with the id and there is no body; for a list the extra
\* segment is empty, so the URL ends with "/" after the table name, and
\* the body is records[]=<id> once per id, in order, joined by &.
C10_DeleteRouting ==
    Fetched("delete") =>
        /\ ret.out.init["method"] = "DELETE"
        /\ Header("Content-Type") = <<"application/x-www-form-urlencoded">>
        /\ ret.args.ids.t = "string" =>
              /\ ret.out.url = TableUrl(This) \o <<"/">> \o ret.args.ids.s
              /\ ~HasBody
        /\ ret.args.ids.t = "array" =>
              /\ ret.out.url = TableUrl(This) \o <<"/">>
              /\ HasBody
              /\ Body = Join([i \in 1..Len(ret.args.ids.s) |->
                                 <<"records", "[", "]", "=">> \o ret.args.ids.s[i]],
                             <<"&">>)

\* delete was called with a list of two different ids
C10_Witness ==
    /\ Fetched("delete")
    /\ ret.args.ids.t = "array" /\ Len(ret.args.ids.s) = 2
    /\ ret.args.ids.s[1] # ret.args.ids.s[2]
    /\ Body = <<"records", "[", "]", "=">> \o ret.args.ids.s[1] \o <<"&">>
              \o <<"records", "[", "]", "=">> \o ret.args.ids.s[2]


----------------------------------------------------------------------------
(* Request Dispatcher: the response.  A call that reached fetch stays in   *)
(* flight until a response arrives; request then throws or returns.        *)

\* the number of calls awaiting their response at one time
MaxInFlight == 1

\* a response: its status line and the text of its body
Response(status, statusText, text) ==
    [status |-> status, statusText |-> statusText, text |-> text]

\* response.ok: the status is in the range 200-299
ok(response) == response.status \in 200..299

\* the objects a body of the service denotes
ResponseObjects ==
    {<<Prop("id", Json(Quoted(<<"recXXXXXXXXXXXXXX">>))),
       Prop("fields", Json(<<"{\"Name\":\"Foo\",\"Age\":20}">>))>>,
     <<Prop("error", Json(Quoted(<<"NOT_FOUND">>)))>>}

\* JSON.parse of a body text: the object whose JSON text it is, or a
\* SyntaxError
JSONparse(text) ==
    IF \E obj \in ResponseObjects : JSONstringify(obj) = text
    THEN Returned(CHOOSE obj \in ResponseObjects : JSONstringify(obj) = text)
    ELSE Threw(AirtableError(<<"SyntaxError">>, undefined, undefined))

\* how a call settles: it returns a value, or it throws an error of the
\* given name
Resolves(value) ==
    [kind |-> "returned", value |-> value,
     error |-> AirtableError(<< >>, undefined, undefined)]

Rejects(name, error) == [kind |-> name, value |-> << >>, error |-> error]

\* requestThen that hands the parsed body to the error
requestThenJsonPayload(response) ==
    IF ~ok(response)
    THEN Rejects("Airtable Error",
                 AirtableError(NumberToString(response.status) \o <<" ">>
                                 \o response.statusText,
                               Json(response.text), Num(response.status)))
    ELSE LET body == JSONparse(response.text)
         IN  IF body.threw THEN Rejects("SyntaxError", body.error)
             ELSE Resolves(body.value)

\* request after the response of fetch has arrived
requestThen(response) ==
    IF ~ok(response)
    THEN Rejects("Airtable Error",
                 AirtableError(NumberToString(response.status) \o <<" ">>
                                 \o response.statusText,
                               Str(response.text), Num(response.status)))
    ELSE LET body == JSONparse(response.text)
         IN  IF body.threw THEN Rejects("SyntaxError", body.error)
             ELSE Resolves(body.value)

\* the call of an operation by its name
Perform(op, this, args) ==
    CASE op = "find" -> find(this, args.id)
      [] op = "create" -> create(this, args.data, args.options)

\* a call in flight: the client it was made on, that client's #options at
\* the call, and the call of fetch it made
Pending(c, op, args, this, out) ==
    [client |-> c, op |-> op, args |-> args, this |-> this, out |-> out]

\* Sent that reads #options when the request is put on the wire
SentLate(r, now) == Perform(r.op, now, r.args)

\* what goes on the wire for a call in flight: the url and the init that
\* fetch was called with, whatever #options is by now
Sent(r, now) == r.out

\* a call that suspends at its fetch
Await(op, c, args) ==
    LET out == Perform(op, clients[c], args)
    IN  /\ c \in DOMAIN clients
        /\ out.fetched => Len(inflight) < MaxInFlight
        /\ inflight' = IF out.fetched
                       THEN Append(inflight, Pending(c, op, args, clients[c], out))
                       ELSE inflight
        /\ ret' = Call(op, c, args, out, "")
        /\ UNCHANGED clients

AwaitFind(c, id) == Await("find", c, [id |-> id])

AwaitCreate(c, data, options) ==
    Await("create", c, [data |-> data, options |-> options])

\* the response of the i-th call in flight arrives
Settle(i, response) ==
    /\ i \in 1..Len(inflight)
    /\ inflight' = SubSeq(inflight, 1, i - 1) \o SubSeq(inflight, i + 1, Len(inflight))
    /\ ret' = Call("settle", inflight[i].client,
                   [sent |-> Sent(inflight[i], clients[inflight[i].client]),
                    response |-> response],
                   requestThen(response), "")
    /\ UNCHANGED clients

\* the responses of the service: a record, a page that is no JSON, a JSON
\* error body, a gateway's page
Responses ==
    {Response(200, <<"OK">>,
              <<"{", "\"", "id", "\"", ":", "\"", "recXXXXXXXXXXXXXX", "\"", ",",
                "\"", "fields", "\"", ":", "{\"Name\":\"Foo\",\"Age\":20}", "}">>),
     Response(200, <<"OK">>, <<"<", "html", ">">>),
     Response(404, <<"Not", " ", "Found">>,
              <<"{", "\"", "error", "\"", ":", "\"", "NOT_FOUND", "\"", "}">>),
     Response(503, <<"Service", " ", "Unavailable">>, <<"<", "html", ">">>)}

\* the clients held while calls are in flight
HeldAsync == {"c", "d"}

\* options handed to configure while calls are in flight
AsyncOptions ==
    {[apiKey |-> Str(<<"keyYYYYYYYYYYYYYY">>)],
     [baseId |-> Str(<<"appYYYYYYYYYYYYYY">>)],
     [apiKey |-> Str(<<"keyXXXXXXXXXXXXXX">>), baseId |-> Str(<<"appXXXXXXXXXXXXXX">>)]}

\* the environment and the client of the tests and examples
TestEnv == [v \in {"AIRTABLE_API_KEY", "AIRTABLE_ENDPOINT_URL", "AIRTABLE_BASE_ID",
                   "AIRTABLE_TABLE_NAME"} |-> undefined]

TestOptions ==
    [apiKey |-> Str(<<"keyXXXXXXXXXXXXXX">>), baseId |-> Str(<<"appXXXXXXXXXXXXXX">>),
     tableName |-> Str(<<"Humans">>)]

InitAsync ==
    /\ clients = ("c" :> Airtable(TestEnv, TestOptions))
    /\ ret = Call("new", "c", [options |-> TestOptions], NoOutcome, "c")
    /\ inflight = << >>

NextAsync ==
    \/ \E c \in HeldAsync, o \in AsyncOptions : Configure(c, o)
    \/ Base("c", "d", TestEnv, Str(<<"appYYYYYYYYYYYYYY">>))
    \/ Table("c", "d", TestEnv, Str(<<"Some", " ", "table", " ", "name">>))
    \/ \E c \in HeldAsync : AwaitFind(c, Str(<<"recXXXXXXXXXXXXXX">>))
    \/ \E c \in HeldAsync :
          AwaitCreate(c, Json(<<"{\"Name\":\"Foo\",\"Age\":20}">>), undefined)
    \/ \E i \in 1..MaxInFlight, response \in Responses : Settle(i, response)

SpecAsync == InitAsync /\ [][NextAsync]_vars


----------------------------------------------------------------------------
(* Claims on the response *)

Settled == ret.op = "settle"

\* the status is outside the success range 200-299
Failure(response) == response.status < 200 \/ response.status > 299

\* the call failed with an AirtableError of the response's status, whose
\* message is "<status> <statusText>" and whose payload is the raw body text
FailedWith(response) ==
    /\ ret.out.kind = "Airtable Error"
    /\ ret.out.error.status = Num(response.status)
    /\ ret.out.error.message
         = NumberToString(response.status) \o <<" ">> \o response.statusText
    /\ ret.out.error.stackObject = Str(response.text)

\* the call returned the value whose JSON text is the body
ReturnedBody(response) ==
    /\ ret.out.kind = "returned"
    /\ JSONstringify(ret.out.value) = response.text

\* C11 as stated: for every dispatched request, a response whose status is
\* outside the success range makes the operation fail with an AirtableError
\* of that status, with message "<status> <statusText>" and the raw body
\* text as payload; a response whose status is in the success range makes
\* it return the JSON-parsed body; one of the two happens.
C11_FailsOrReturnsBody ==
    Settled =>
        IF Failure(ret.args.response) THEN FailedWith(ret.args.response)
        ELSE ReturnedBody(ret.args.response)

\* C11, amended: a response whose status is outside the success range makes
\* the operation fail with an AirtableError of that status, with message
\* "<status> <statusText>" and the raw body text, not parsed, as payload; a
\* response whose status is in the success range makes it return the
\* JSON-parsed body when the body is JSON, and fail with the parser's
\* error, which is no AirtableError, when it is not; exactly one of the
\* three happens.
C11_FailsReturnsOrParseError ==
    Settled =>
        LET response == ret.args.response
            isJson == \E obj \in ResponseObjects : JSONstringify(obj) = response.text
        IN  /\ Failure(response) => FailedWith(response)
            /\ (~Failure(response) /\ isJson) => ReturnedBody(response)
            /\ (~Failure(response) /\ ~isJson) =>
                   /\ ret.out.kind = "SyntaxError"
                   /\ ret.out.value = << >>
            /\ ret.out.kind \in {"Airtable Error", "returned", "SyntaxError"}

\* a 404 whose body is JSON fails with "404 Not Found" and the body as text
C11_Witness ==
    /\ Settled
    /\ ret.args.response.status = 404
    /\ ret.out.kind = "Airtable Error"
    /\ ret.out.error.message = <<"4", "0", "4", " ", "Not", " ", "Found">>
    /\ ret.out.error.stackObject.t = "string"
    /\ ret.out.error.stackObject.s
         = <<"{", "\"", "error", "\"", ":", "\"", "NOT_FOUND", "\"", "}">>


----------------------------------------------------------------------------
(* Claims on the Authorization header *)

\* C12: every request an operation dispatches carries the header
\* Authorization: "Bearer <apiKey>", apiKey being the key configured on the
\* client at the call; the operations that set Content-Type carry it too.
C12_BearerKeyOnEveryRequest ==
    (ret.op \in OperationNames /\ ret.out.fetched) =>
        /\ "headers" \in DOMAIN ret.out.init
        /\ "Authorization" \in DOMAIN ret.out.init["headers"]
        /\ ret.out.init["headers"]["Authorization"]
             = <<"Bearer", " ">> \o This["apiKey"].s

\* a bulk delete, which sets Content-Type, made after the key was changed
C12_Witness ==
    /\ Fetched("delete")
    /\ "Content-Type" \in DOMAIN ret.out.init["headers"]
    /\ This["apiKey"].s = <<"keyYYYYYYYYYYYYYY">>
    /\ Header("Authorization") = <<"Bearer", " ", "keyYYYYYYYYYYYYYY">>


----------------------------------------------------------------------------
(* Two clients held at once: c, and d made from it by base or table (or c  *)
(* made again from d); either is configured at any time.                   *)

HeldPair == {"c", "d"}

\* options handed to configure on either client
PairOptions ==
    {[apiKey |-> Str(<<"keyYYYYYYYYYYYYYY">>)],
     [useEnv |-> true],
     [baseId |-> Str(<<"appXXXXXXXXXXXXXX">>), tableName |-> Str(<<"Humans">>)]}

NextPair ==
    \/ \E c \in HeldPair, o \in PairOptions : Configure(c, o)
    \/ \E c, d \in HeldPair, env \in Envs, b \in BaseIds :
          c # d /\ Base(c, d, env, b)
    \/ \E c, d \in HeldPair, env \in Envs, t \in TableNames :
          c # d /\ Table(c, d, env, t)

SpecPair == Init /\ [][NextPair]_vars

----------------------------------------------------------------------------
(* Claims on reconfiguration *)

\* the step is a call of configure, base or table
Reconfigured(op) == ret' # ret /\ ret'.op = op

\* b's fields laid over a's
Merged(a, b, result) ==
    /\ DOMAIN result = (DOMAIN a) \cup (DOMAIN b)
    /\ \A k \in DOMAIN b : result[k] = b[k]
    /\ \A k \in (DOMAIN a) \ (DOMAIN b) : result[k] = a[k]

\* the step called nothing of the network
NoRequest == inflight' = inflight /\ ~ret'.out.fetched /\ ~ret'.out.threw

NewClientWith(k, v) ==
    /\ ret'.returned # ret'.client
    /\ clients'[ret'.client] = clients[ret'.client]
    /\ clients'[ret'.returned][k] = v
    /\ \A j \in (DOMAIN clients[ret'.client]) \ {k} :
          /\ j \in DOMAIN clients'[ret'.returned]
          /\ clients'[ret'.returned][j] = clients[ret'.client][j]

----------------------------------------------------------------------------
(* The constructor as a function: an environment and options are drawn,    *)
(* and one client is constructed from them.                                *)

false == [t |-> "boolean", s |-> <<"false">>]

\* the values a variable of the environment has: unset, or set
EnvValues(v) ==
    CASE v = "AIRTABLE_API_KEY" -> {undefined, Str(<<"keyYYYYYYYYYYYYYY">>)}
      [] v = "AIRTABLE_ENDPOINT_URL" ->
           {undefined, Str(<<"https", ":", "/", "/", "proxy.example", "/", "v0">>)}
      [] v = "AIRTABLE_BASE_ID" -> {undefined, Str(<<"appYYYYYYYYYYYYYY">>)}
      [] v = "AIRTABLE_TABLE_NAME" -> {undefined, Str(<<"Humans">>)}

\* every environment: each variable unset or set
AllEnvs ==
    {env \in [{"AIRTABLE_API_KEY", "AIRTABLE_ENDPOINT_URL", "AIRTABLE_BASE_ID",
               "AIRTABLE_TABLE_NAME"}
              -> {undefined} \cup UNION {EnvValues(v) : v \in
                     {"AIRTABLE_API_KEY", "AIRTABLE_ENDPOINT_URL", "AIRTABLE_BASE_ID",
                      "AIRTABLE_TABLE_NAME"}}] :
        \A v \in DOMAIN env : env[v] \in EnvValues(v)}

\* the values a field of the options is passed with
PassedValues(k) ==
    CASE k = "apiKey" -> {undefined, Str(<<"keyXXXXXXXXXXXXXX">>)}
      [] k = "endpointUrl" -> {Str(<<"https", ":", "/", "/", "localhost", "/", "v0">>)}
      [] k = "baseId" -> {Str(<<"appXXXXXXXXXXXXXX">>)}
      [] k = "tableName" -> {Str(<<"Some", " ", "table", " ", "name">>)}
      [] k = "useEnv" -> {true, false}

\* every options object: each field left out, or passed with a value
AllCtorOptions ==
    UNION {{o \in [keys -> UNION {PassedValues(k) : k \in keys}] :
               \A k \in keys : o[k] \in PassedValues(k)} :
           keys \in SUBSET (OptionKeys \cup {"useEnv"})}

InitCtor ==
    /\ clients = << >>
    /\ ret = Call("", "c", [env |-> TestEnv, options |-> EmptyObject], NoOutcome, "")
    /\ inflight = << >>

\* new Airtable(options) under the environment env
Construct(c, env, options) ==
    /\ clients' = (c :> Airtable(env, options)) @@ clients
    /\ ret' = Call("new", c, [env |-> env, options |-> options], NoOutcome, c)
    /\ UNCHANGED inflight

NextCtor == \E env \in AllEnvs, options \in AllCtorOptions : Construct("c", env, options)

SpecCtor == InitCtor /\ [][NextCtor]_vars

----------------------------------------------------------------------------
(* Claims on the constructor *)

\* the variable of the environment a field is read from
EnvVar(k) ==
    CASE k = "apiKey" -> "AIRTABLE_API_KEY"
      [] k = "endpointUrl" -> "AIRTABLE_ENDPOINT_URL"
      [] k = "baseId" -> "AIRTABLE_BASE_ID"
      [] k = "tableName" -> "AIRTABLE_TABLE_NAME"

Constructed == ret.op = "new" /\ "env" \in DOMAIN ret.args

UsesEnv(o) == "useEnv" \in DOMAIN o /\ o["useEnv"] = true

\* C14: a constructed client's configuration is the merge, later layers
\* winning, of the environment's values (only when useEnv is set), the
\* default endpoint https://api.airtable.com/v0, and the options passed:
\* a field that is passed has the passed value; apiKey, baseId and
\* tableName that are not passed come from the environment when useEnv is
\* set and are absent otherwise; endpointUrl that is not passed is the
\* default, also when the environment sets AIRTABLE_ENDPOINT_URL.
C14_ConstructorLayers ==
    Constructed =>
        LET o == ret.args.options
            env == ret.args.env
            cfg == clients[ret.returned]
        IN  \A k \in OptionKeys :
              IF k \in DOMAIN o THEN k \in DOMAIN cfg /\ cfg[k] = o[k]
              ELSE IF k = "endpointUrl"
                THEN /\ k \in DOMAIN cfg
                     /\ cfg[k] = Str(<<"https", ":", "/", "/", "api.airtable.com", "/", "v0">>)
              ELSE IF UsesEnv(o) THEN k \in DOMAIN cfg /\ cfg[k] = env[EnvVar(k)]
              ELSE k \notin DOMAIN cfg

\* useEnv with every variable set and only tableName passed: the key and
\* the base are the environment's, the table is the passed one, and the
\* endpoint is the default although the environment names a proxy
C14_Witness ==
    /\ Constructed
    /\ DOMAIN ret.args.options = {"useEnv", "tableName"}
    /\ UsesEnv(ret.args.options)
    /\ ret.args.env["AIRTABLE_ENDPOINT_URL"].t = "string"
    /\ ret.args.env["AIRTABLE_TABLE_NAME"] = Str(<<"Humans">>)
    /\ clients["c"]["apiKey"] = Str(<<"keyYYYYYYYYYYYYYY">>)
    /\ clients["c"]["baseId"] = Str(<<"appYYYYYYYYYYYYYY">>)
    /\ clients["c"]["tableName"] = Str(<<"Some", " ", "table", " ", "name">>)
    /\ clients["c"]["endpointUrl"] = defaultOptions.endpointUrl


----------------------------------------------------------------------------
(* Claims on calls in flight *)

\* the URL and the Authorization header of a request made on the
\* configuration o: the table's URL, the record id after it for find
UrlFrom(o, op, args) ==
    TableUrl(o) \o (IF op = "find" THEN <<"/">> \o args.id.s ELSE << >>)

BearerFrom(o) == <<"Bearer", " ">> \o o["apiKey"].s

\* C15: whatever configure, base or table do while a call is in flight,
\* the request of that call has the URL and the bearer key of the
\* configuration the client had when the operation was called, both of
\* that one configuration.
C15_RequestFromOneSnapshot ==
    \A i \in 1..Len(inflight) :
        LET r == inflight[i]
            sent == Sent(r, clients[r.client])
        IN  /\ sent.fetched
            /\ sent.url = UrlFrom(r.this, r.op, r.args)
            /\ "headers" \in DOMAIN sent.init
            /\ "Authorization" \in DOMAIN sent.init["headers"]
            /\ sent.init["headers"]["Authorization"] = BearerFrom(r.this)

\* a find is in flight on a client whose key and base were both changed
\* after the call; its request has the old key and the old base
C15_Witness ==
    \E i \in 1..Len(inflight) :
        /\ inflight[i].op = "find"
        /\ inflight[i].this["apiKey"] # clients[inflight[i].client]["apiKey"]
        /\ inflight[i].this["baseId"] # clients[inflight[i].client]["baseId"]
        /\ ret.op = "configure" /\ ret.client = inflight[i].client
        /\ inflight[i].out.init["headers"]["Authorization"]
             = <<"Bearer", " ", "keyXXXXXXXXXXXXXX">>
        /\ inflight[i].out.url
             = <<"https", ":", "/", "/", "api.airtable.com", "/", "v0", "/",
                 "appXXXXXXXXXXXXXX", "/", "Humans", "/", "recXXXXXXXXXXXXXX">>


----------------------------------------------------------------------------
(* Claims on the clients' independence *)

\* C16: each client owns its configuration: with d obtained from c by
\* c.base(b) or c.table(t), a call of configure on one of the two leaves
\* the configuration of the other unchanged.
C16_ConfigureLeavesOtherClient ==
    [][Reconfigured("configure") =>
          \A x \in (DOMAIN clients) \ {ret'.client} :
              /\ x \in DOMAIN clients'
              /\ clients'[x] = clients[x]]_vars

\* d, made from c by base or table, was given another key by configure and
\* c still has its own
C16_Witness ==
    /\ ret.op = "configure" /\ ret.client = "d"
    /\ "apiKey" \in DOMAIN ret.args.options
    /\ DOMAIN clients = {"c", "d"}
    /\ clients["d"]["apiKey"] = Str(<<"keyYYYYYYYYYYYYYY">>)
    /\ NonEmpty(clients["c"], "apiKey")
    /\ clients["c"]["apiKey"] = Str(<<"keyXXXXXXXXXXXXXX">>)

====
